---------------------------- MODULE Spec2Model ----------------------------
(***************************************************************************)
(* The bit-packed Identifier of bevy_ecs, in its three source files:       *)
(*   identifier/masks.rs  IdentifierMask, the pure mask/pack functions      *)
(*   identifier/mod.rs    Identifier { lo: u32, hi: u32 }, one flag bit    *)
(*   identifier.rs        Identifier(u64), kind flag and activation flag   *)
(*                                                                         *)
(* A machine word is modelled at its full width as the set of the          *)
(* positions of its 1 bits (bit 0 the least significant): a u32 is a       *)
(* subset of 0..31 and a u64 a subset of 0..63.  The bitwise operators of  *)
(* the source are then exact set operations, and no value exceeds what     *)
(* the model checker's integers can hold.                                  *)
(***************************************************************************)
EXTENDS Integers, FiniteSets, Sequences, TLC

VARIABLES
    origin,   \* how the identifier under test was constructed, with the inputs
    sid,      \* identifier/mod.rs: the Identifier { lo, hi }
    uid0,     \* identifier.rs: the Identifier(u64) as constructed, its field .0
    uid,      \* identifier.rs: the same identifier after the activate/deactivate calls
    trail,    \* identifier.rs: the last activate/deactivate calls, oldest first
    other,    \* the 64-bit value a second identifier is decoded from, to compare
    op,       \* the last function called
    arg,      \* its arguments
    ret       \* the value it returned

vars == <<origin, sid, uid0, uid, trail, other, op, arg, ret>>

---------------------------------------------------------------------------
(* Widths and bounds *)

\* u32::BITS
U32_BITS == 32

\* u64::BITS
U64_BITS == 64

\* How many of the most significant bit positions of each 32-bit half the
\* inputs range over (with bit 0 of the half): 2 covers both flag bits.
TopBits == 2

\* How many activate/deactivate calls the trail remembers.
TrailLen == 2

SamplePositions32 == {0} \cup ((U32_BITS - TopBits) .. (U32_BITS - 1))

SamplePositions64 == SamplePositions32 \cup {p + U32_BITS : p \in SamplePositions32}

\* The u32 inputs and the u64 inputs of the model.
SamplesU32 == SUBSET SamplePositions32

SamplesU64 == SUBSET SamplePositions64

None == "none"

---------------------------------------------------------------------------
(* Rust's integer operators on words *)

\* a & b
BitAnd(a, b) == a \cap b

\* a | b
BitOr(a, b) == a \cup b

\* !a at width w
BitNot(a, w) == (0 .. (w - 1)) \ a

\* a << n at width w: bits shifted past the width are lost
Shl(a, n, w) == {i + n : i \in {j \in a : j + n < w}}

\* a >> n
Shr(a, n) == {i - n : i \in {j \in a : j >= n}}

\* a as u32: truncation to the low 32 bits
AsU32(a) == a \cap (0 .. (U32_BITS - 1))

\* a as u64 of a narrower unsigned value: zero extension
AsU64(a) == a \cap (0 .. (U64_BITS - 1))

\* 1 << n
Bit(n) == {n}

SetMax(s) == CHOOSE m \in s : \A x \in s : x <= m

\* a < b on unsigned integers: the most significant differing bit is b's
ULess(a, b) == a # b /\ SetMax((a \ b) \cup (b \ a)) \in b

\* Ord::cmp on unsigned integers
UCmp(a, b) == IF a = b THEN "Equal" ELSE IF ULess(a, b) THEN "Less" ELSE "Greater"

---------------------------------------------------------------------------
(* identifier/kinds.rs (not among the source files): the IdKind that       *)
(* masks.rs imports as super::kinds::IdKind, with variants Entity and      *)
(* Placeholder.  Its discriminants are taken from the layout the           *)
(* specification gives (kind flag = most significant bit of the high       *)
(* segment, Entity = 0) and agree with masks.rs's tests::pack_kind_bits.   *)

\* The shift pack_kind_into_high applies to `kind as u32`.
KIND_SHIFT == 24

KindsIdKind == {"Entity", "Placeholder"}

\* kind as u32, for kinds::IdKind
KindsIdKind_as_u32(kind) == IF kind = "Placeholder" THEN Bit(U32_BITS - 1 - KIND_SHIFT) ELSE {}

---------------------------------------------------------------------------
(* identifier/masks.rs *)

\* const LOW_MASK: u64 = 0x0000_0000_FFFF_FFFF
LOW_MASK == 0 .. 31

\* const HIGH_MASK: u32 = 0x7FFF_FFFF
HIGH_MASK == 0 .. 30

IdentifierMask_get_low(value) == AsU32(BitAnd(value, LOW_MASK))

\* Mutant: the high half taken through identifier.rs's 30-bit HIGH_MASK.
Mut_get_high_masked(value) == AsU32(Shr(BitAnd(value, 32 .. 61), U32_BITS))

IdentifierMask_get_high(value) ==
    AsU32(Shr(BitAnd(value, BitNot(LOW_MASK, U64_BITS)), U32_BITS))

\* Mutant: the high half shifted one bit short.
Mut_pack_into_u64_short(low, high) ==
    BitOr(Shl(AsU64(high), U32_BITS - 1, U64_BITS), AsU64(low))

IdentifierMask_pack_into_u64(low, high) ==
    BitOr(Shl(AsU64(high), U32_BITS, U64_BITS), AsU64(low))

\* Mutant: the kind shifted one bit short, onto bit 30.
Mut_pack_kind_shift(value, kind) ==
    BitOr(value, Shl(KindsIdKind_as_u32(kind), KIND_SHIFT - 1, U32_BITS))

IdentifierMask_pack_kind_into_high(value, kind) ==
    BitOr(value, Shl(KindsIdKind_as_u32(kind), KIND_SHIFT, U32_BITS))

IdentifierMask_extract_value_from_high(value) == BitAnd(value, HIGH_MASK)

\* Mutant: the mask not negated, so the value bits are tested.
Mut_extract_kind_unnegated(value) ==
    LET kind_mask == HIGH_MASK
        bit == BitAnd(value, kind_mask)
    IN  IF bit = kind_mask THEN "Placeholder" ELSE "Entity"

IdentifierMask_extract_kind_from_high(value) ==
    LET kind_mask == BitNot(HIGH_MASK, U32_BITS)
        bit == BitAnd(value, kind_mask)
    IN  IF bit = kind_mask THEN "Placeholder" ELSE "Entity"

---------------------------------------------------------------------------
(* identifier/mod.rs: Identifier { lo: u32, hi: u32 } *)

IdKind == {"Entity", "Pair"}

\* kind as u32, for mod.rs's IdKind: Entity = 0, Pair = 1 << (u32::BITS - 1)
IdKind_as_u32(kind) ==
    IF kind = "Pair" THEN Shl(Bit(0), U32_BITS - 1, U32_BITS) ELSE {}

\* Mutant: high not masked before the kind is packed.
Mut_Identifier_new_unmasked(low, high, kind) ==
    [lo |-> low, hi |-> BitOr(high, IdKind_as_u32(kind))]

Identifier_new(low, high, kind) ==
    LET masked_high ==
            BitOr(IdentifierMask_extract_value_from_high(high), IdKind_as_u32(kind))
    IN  [lo |-> low, hi |-> masked_high]

Identifier_low(self) == self.lo

Identifier_high(self) == self.hi

Identifier_to_bits(self) ==
    BitOr(Shl(AsU64(self.hi), U32_BITS, U64_BITS), AsU64(self.lo))

Identifier_from_bits(value) ==
    [lo |-> IdentifierMask_get_low(value), hi |-> IdentifierMask_get_high(value)]

\* #[derive(PartialEq, Eq)]: field by field
Identifier_eq(a, b) == a.lo = b.lo /\ a.hi = b.hi

\* #[derive(PartialOrd, Ord)]: lexicographic, the fields in declaration order
Identifier_cmp(a, b) ==
    IF a.lo # b.lo THEN UCmp(a.lo, b.lo) ELSE UCmp(a.hi, b.hi)

---------------------------------------------------------------------------
(* identifier.rs: Identifier(u64) *)

\* const LOW_MASK: u64 = 0xFFFFFFFF
U64_LOW_MASK == 0 .. 31

\* const HIGH_MASK: u64 = 0x3FFFFFFF00000000
U64_HIGH_MASK == 32 .. 61

\* FlagDiscriminators::EntityPair = 1 << (u64::BITS - 1)
FlagDiscriminators_EntityPair == Shl(Bit(0), U64_BITS - 1, U64_BITS)

\* FlagDiscriminators::Deactivated = 1 << (u64::BITS - 2)
FlagDiscriminators_Deactivated == Shl(Bit(0), U64_BITS - 2, U64_BITS)

\* kind as u64, for identifier.rs's IdKind: Entity = 0, Pair = 1 << (u64::BITS - 1)
IdKind_as_u64(kind) ==
    IF kind = "Pair" THEN Shl(Bit(0), U64_BITS - 1, U64_BITS) ELSE {}

\* Mutant: high masked with 0x7FFFFFFF00000000, the one-flag mask.
Mut_U64_new_one_flag(low, high, kind) ==
    LET masked_high == BitAnd(Shl(AsU64(high), U32_BITS, U64_BITS), 32 .. 62)
    IN  BitOr(BitOr(masked_high, AsU64(low)), IdKind_as_u64(kind))

IdentifierU64_new(low, high, kind) ==
    LET masked_high == BitAnd(Shl(AsU64(high), U32_BITS, U64_BITS), U64_HIGH_MASK)
    IN  BitOr(BitOr(masked_high, AsU64(low)), IdKind_as_u64(kind))

IdentifierU64_low(self) == AsU32(BitAnd(self, U64_LOW_MASK))

\* Mutant: the high half returned without masking.
Mut_U64_high_unmasked(self) == AsU32(Shr(self, U32_BITS))

IdentifierU64_high(self) == AsU32(Shr(BitAnd(self, U64_HIGH_MASK), U32_BITS))

IdentifierU64_to_bits(self) == self

IdentifierU64_from_bits(value) == value

IdentifierU64_kind(self) ==
    LET mask == FlagDiscriminators_EntityPair
        bit == BitAnd(self, mask)
    IN  IF bit = mask THEN "Pair" ELSE "Entity"

IdentifierU64_is_active(self) ==
    LET bit == BitAnd(self, FlagDiscriminators_Deactivated)
    IN  bit = {}

\* Mutant: the kind bit cleared instead of the activation bit.
Mut_U64_activate_kind_bit(self) ==
    BitAnd(self, BitNot(Shl(Bit(0), U64_BITS - 1, U64_BITS), U64_BITS))

IdentifierU64_activate(self) ==
    LET NEGATE_DEACTIVATE_MASK == BitNot(Shl(Bit(0), U64_BITS - 2, U64_BITS), U64_BITS)
    IN  BitAnd(self, NEGATE_DEACTIVATE_MASK)

\* Mutant: the EntityPair flag set instead of Deactivated.
Mut_U64_deactivate_pair_bit(self) == BitOr(self, FlagDiscriminators_EntityPair)

IdentifierU64_deactivate(self) == BitOr(self, FlagDiscriminators_Deactivated)

\* #[derive(PartialEq, Eq)] on the tuple struct: the u64 fields compared
IdentifierU64_eq(a, b) == a = b

\* #[derive(PartialOrd, Ord)] on the tuple struct: the u64 fields compared
IdentifierU64_cmp(a, b) == UCmp(a, b)

---------------------------------------------------------------------------
(* Construction: the state after Identifier::new or Identifier::from_bits, *)
(* the same inputs given to both variants.                                 *)

NewOrigins ==
    {[op |-> "new", low |-> l, high |-> h, kind |-> k] :
        l \in SamplesU32, h \in SamplesU32, k \in IdKind}

FromBitsOrigins == {[op |-> "from_bits", bits |-> x] : x \in SamplesU64}

Construct(o) ==
    /\ origin = o
    /\ sid = IF o.op = "new" THEN Identifier_new(o.low, o.high, o.kind)
                             ELSE Identifier_from_bits(o.bits)
    /\ uid0 = IF o.op = "new" THEN IdentifierU64_new(o.low, o.high, o.kind)
                              ELSE IdentifierU64_from_bits(o.bits)
    /\ uid = uid0
    /\ trail = <<>>
    /\ op = None
    /\ arg = None
    /\ ret = None

Init ==
    /\ \E o \in NewOrigins \cup FromBitsOrigins : Construct(o)
    /\ other = None

(* identifier/mod.rs *)
Low ==
    /\ op' = "Identifier::low"
    /\ arg' = None
    /\ ret' = Identifier_low(sid)
    /\ UNCHANGED <<origin, sid, uid0, uid, trail, other>>

High ==
    /\ op' = "Identifier::high"
    /\ arg' = None
    /\ ret' = Identifier_high(sid)
    /\ UNCHANGED <<origin, sid, uid0, uid, trail, other>>

ToBits ==
    /\ op' = "Identifier::to_bits"
    /\ arg' = None
    /\ ret' = Identifier_to_bits(sid)
    /\ UNCHANGED <<origin, sid, uid0, uid, trail, other>>

(* identifier.rs *)
ULow ==
    /\ op' = "IdentifierU64::low"
    /\ arg' = None
    /\ ret' = IdentifierU64_low(uid)
    /\ UNCHANGED <<origin, sid, uid0, uid, trail, other>>

UHigh ==
    /\ op' = "IdentifierU64::high"
    /\ arg' = None
    /\ ret' = IdentifierU64_high(uid)
    /\ UNCHANGED <<origin, sid, uid0, uid, trail, other>>

UToBits ==
    /\ op' = "IdentifierU64::to_bits"
    /\ arg' = None
    /\ ret' = IdentifierU64_to_bits(uid)
    /\ UNCHANGED <<origin, sid, uid0, uid, trail, other>>

UKind ==
    /\ op' = "IdentifierU64::kind"
    /\ arg' = None
    /\ ret' = IdentifierU64_kind(uid)
    /\ UNCHANGED <<origin, sid, uid0, uid, trail, other>>

UIsActive ==
    /\ op' = "IdentifierU64::is_active"
    /\ arg' = None
    /\ ret' = IdentifierU64_is_active(uid)
    /\ UNCHANGED <<origin, sid, uid0, uid, trail, other>>

\* The trail keeps the last TrailLen calls, each with the identifier it was
\* called on.
Remember(name) ==
    LET t == Append(trail, [op |-> name, before |-> uid])
    IN  IF Len(t) > TrailLen THEN Tail(t) ELSE t

\* id = id.activate()
Activate ==
    /\ uid' = IdentifierU64_activate(uid)
    /\ trail' = Remember("activate")
    /\ op' = "IdentifierU64::activate"
    /\ arg' = None
    /\ ret' = uid'
    /\ UNCHANGED <<origin, sid, uid0, other>>

\* id = id.deactivate()
Deactivate ==
    /\ uid' = IdentifierU64_deactivate(uid)
    /\ trail' = Remember("deactivate")
    /\ op' = "IdentifierU64::deactivate"
    /\ arg' = None
    /\ ret' = uid'
    /\ UNCHANGED <<origin, sid, uid0, other>>

Next ==
    \/ Low
    \/ High
    \/ ToBits
    \/ ULow
    \/ UHigh
    \/ UToBits
    \/ UKind
    \/ UIsActive
    \/ Activate
    \/ Deactivate

Spec == Init /\ [][Next]_vars

---------------------------------------------------------------------------
(* Comparison of the identifier under test, a, with a second one, b,       *)
(* decoded from any 64-bit value (every identifier of either variant is    *)
(* from_bits of its own to_bits).                                          *)

InitOrd ==
    /\ \E o \in NewOrigins \cup FromBitsOrigins : Construct(o)
    /\ other \in SamplesU64

\* a == b, identifier/mod.rs
Eq ==
    /\ op' = "Identifier::eq"
    /\ arg' = Identifier_from_bits(other)
    /\ ret' = Identifier_eq(sid, Identifier_from_bits(other))
    /\ UNCHANGED <<origin, sid, uid0, uid, trail, other>>

\* a.cmp(&b), identifier/mod.rs
Cmp ==
    /\ op' = "Identifier::cmp"
    /\ arg' = Identifier_from_bits(other)
    /\ ret' = Identifier_cmp(sid, Identifier_from_bits(other))
    /\ UNCHANGED <<origin, sid, uid0, uid, trail, other>>

\* a == b, identifier.rs
UEq ==
    /\ op' = "IdentifierU64::eq"
    /\ arg' = IdentifierU64_from_bits(other)
    /\ ret' = IdentifierU64_eq(uid, IdentifierU64_from_bits(other))
    /\ UNCHANGED <<origin, sid, uid0, uid, trail, other>>

\* a.cmp(&b), identifier.rs
UCmpAction ==
    /\ op' = "IdentifierU64::cmp"
    /\ arg' = IdentifierU64_from_bits(other)
    /\ ret' = IdentifierU64_cmp(uid, IdentifierU64_from_bits(other))
    /\ UNCHANGED <<origin, sid, uid0, uid, trail, other>>

NextOrd ==
    \/ Eq
    \/ Cmp
    \/ UEq
    \/ UCmpAction

SpecOrd == InitOrd /\ [][NextOrd]_vars

---------------------------------------------------------------------------
(* identifier/masks.rs: each function called on inputs of its own. *)

InitMasks ==
    /\ origin = None
    /\ sid = None
    /\ uid0 = None
    /\ uid = None
    /\ trail = <<>>
    /\ other = None
    /\ op = None
    /\ arg = None
    /\ ret = None

GetLow ==
    \E v \in SamplesU64 :
        /\ op' = "get_low"
        /\ arg' = [value |-> v]
        /\ ret' = IdentifierMask_get_low(v)
        /\ UNCHANGED <<origin, sid, uid0, uid, trail, other>>

GetHigh ==
    \E v \in SamplesU64 :
        /\ op' = "get_high"
        /\ arg' = [value |-> v]
        /\ ret' = IdentifierMask_get_high(v)
        /\ UNCHANGED <<origin, sid, uid0, uid, trail, other>>

PackIntoU64 ==
    \E l \in SamplesU32, h \in SamplesU32 :
        /\ op' = "pack_into_u64"
        /\ arg' = [low |-> l, high |-> h]
        /\ ret' = IdentifierMask_pack_into_u64(l, h)
        /\ UNCHANGED <<origin, sid, uid0, uid, trail, other>>

PackKindIntoHigh ==
    \E v \in SamplesU32, k \in KindsIdKind :
        /\ op' = "pack_kind_into_high"
        /\ arg' = [value |-> v, kind |-> k]
        /\ ret' = IdentifierMask_pack_kind_into_high(v, k)
        /\ UNCHANGED <<origin, sid, uid0, uid, trail, other>>

ExtractValueFromHigh ==
    \E v \in SamplesU32 :
        /\ op' = "extract_value_from_high"
        /\ arg' = [value |-> v]
        /\ ret' = IdentifierMask_extract_value_from_high(v)
        /\ UNCHANGED <<origin, sid, uid0, uid, trail, other>>

ExtractKindFromHigh ==
    \E v \in SamplesU32 :
        /\ op' = "extract_kind_from_high"
        /\ arg' = [value |-> v]
        /\ ret' = IdentifierMask_extract_kind_from_high(v)
        /\ UNCHANGED <<origin, sid, uid0, uid, trail, other>>

NextMasks ==
    \/ GetLow
    \/ GetHigh
    \/ PackIntoU64
    \/ PackKindIntoHigh
    \/ ExtractValueFromHigh
    \/ ExtractKindFromHigh

SpecMasks == InitMasks /\ [][NextMasks]_vars

---------------------------------------------------------------------------
(* Properties *)

\* The positions of the two reserved flag bits.
KindBit64 == {U64_BITS - 1}

ActivationBit64 == {U64_BITS - 2}

KindBit32 == {U32_BITS - 1}

ActivationBit32 == {U32_BITS - 2}

\* The 64-bit word whose low half is l and whose high half is h.
Word(l, h) == l \cup {i + U32_BITS : i \in h}

ByNew == origin.op = "new"

ByFromBits == origin.op = "from_bits"

\* The last n calls of the trail are the given ones, oldest first.
LastCalls(names) ==
    /\ Len(trail) >= Len(names)
    /\ \A i \in 1 .. Len(names) :
          trail[Len(trail) - Len(names) + i].op = names[i]

\* C1: to_bits(from_bits(x)) = x for every 64-bit x, in identifier/mod.rs and
\* in identifier.rs: to_bits called on an identifier that from_bits decoded
\* returns the value decoded, flag bits 63 and 62 included.
C1_RoundTrip ==
    /\ (ByFromBits /\ op = "Identifier::to_bits") => ret = origin.bits
    /\ (ByFromBits /\ op = "IdentifierU64::to_bits" /\ trail = <<>>) => ret = origin.bits

C1_Witness ==
    /\ ByFromBits
    /\ op = "Identifier::to_bits"
    /\ KindBit64 \cup ActivationBit64 \subseteq origin.bits
    /\ 0 \in origin.bits

C3_Original ==
    /\ op = "Identifier::cmp" =>
          (ret = "Less" <=> ULess(Identifier_to_bits(sid), Identifier_to_bits(arg)))
    /\ op = "Identifier::eq" =>
          (ret <=> Identifier_to_bits(sid) = Identifier_to_bits(arg))
    /\ op = "IdentifierU64::cmp" =>
          (ret = "Less" <=> ULess(IdentifierU64_to_bits(uid), IdentifierU64_to_bits(arg)))
    /\ op = "IdentifierU64::eq" =>
          (ret <=> IdentifierU64_to_bits(uid) = IdentifierU64_to_bits(arg))

\* C4 as stated: activate(deactivate(id)) = id for any identifier id, built by
\* new or decoded by from_bits.
C4_Original ==
    LastCalls(<<"deactivate", "activate">>) => uid = trail[Len(trail) - 1].before

\* C4 amended: activate(deactivate(id)) is id with bit 62 cleared; it equals id
\* for every active id, so for every id built by new, and differs from a
\* deactivated id (one from_bits decoded with bit 62 set, or one deactivated
\* before) in bit 62.
C4_Amended ==
    LastCalls(<<"deactivate", "activate">>) =>
        LET id == trail[Len(trail) - 1].before
        IN  /\ uid = id \ ActivationBit64
            /\ (ActivationBit64 \cap id = {}) => uid = id
            /\ (ByNew /\ Len(trail) = 2) => uid = uid0

C4_Witness ==
    /\ ByNew
    /\ trail = <<[op |-> "deactivate", before |-> uid0],
                 [op |-> "activate", before |-> uid0 \cup ActivationBit64]>>
    /\ KindBit64 \subseteq uid
    /\ uid = uid0

\* C5 as stated: in both variants high(id) = to_bits(id) >> 32, no masking.
C5_Original ==
    /\ op = "Identifier::high" => ret = Shr(Identifier_to_bits(sid), U32_BITS)
    /\ op = "IdentifierU64::high" => ret = Shr(IdentifierU64_to_bits(uid), U32_BITS)

\* C5 amended: in identifier/mod.rs high(id) = to_bits(id) >> 32, the kind flag
\* still embedded; in identifier.rs high(id) = (to_bits(id) >> 32) & 0x3FFF_FFFF,
\* both flag bits masked off.
C5_Amended ==
    /\ op = "Identifier::high" => ret = Shr(Identifier_to_bits(sid), U32_BITS)
    /\ op = "IdentifierU64::high" =>
          ret = Shr(IdentifierU64_to_bits(uid), U32_BITS) \ (KindBit32 \cup ActivationBit32)

C5_Witness ==
    /\ op = "IdentifierU64::high"
    /\ KindBit64 \cup ActivationBit64 \cup {U32_BITS} \subseteq uid
    /\ ret = {0}

\* C6: after any sequence of activate/deactivate calls the identifier differs
\* from the one constructed in at most bit 62, and kind(), low() and high()
\* return what they returned for the one constructed.
C6_OnlyActivationBit ==
    /\ (uid \ uid0) \cup (uid0 \ uid) \subseteq ActivationBit64
    /\ IdentifierU64_kind(uid) = IdentifierU64_kind(uid0)
    /\ IdentifierU64_low(uid) = IdentifierU64_low(uid0)
    /\ IdentifierU64_high(uid) = IdentifierU64_high(uid0)
    /\ op = "IdentifierU64::kind" => ret = IdentifierU64_kind(uid0)
    /\ op = "IdentifierU64::low" => ret = IdentifierU64_low(uid0)
    /\ op = "IdentifierU64::high" => ret = IdentifierU64_high(uid0)

C6_Witness ==
    /\ Len(trail) = TrailLen
    /\ trail[Len(trail)].op = "deactivate"
    /\ uid # uid0
    /\ op = "IdentifierU64::kind"
    /\ ret = "Pair"

C8_Active ==
    /\ (ByNew /\ trail = <<>> /\ op = "IdentifierU64::is_active") => ret = TRUE
    /\ (LastCalls(<<"deactivate">>) /\ op = "IdentifierU64::is_active") => ret = FALSE

C8_Witness ==
    /\ ByNew
    /\ trail = <<>>
    /\ ActivationBit32 \cup KindBit32 \subseteq origin.high
    /\ op = "IdentifierU64::is_active"
    /\ ret = TRUE

\* C9: pack_into_u64(l, h) = (h << 32) | l, and get_low and get_high of it
\* return l and h, the flag bits of h included.
C9_PackInverse ==
    op = "pack_into_u64" =>
        /\ ret = Word(arg.low, arg.high)
        /\ IdentifierMask_get_low(ret) = arg.low
        /\ IdentifierMask_get_high(ret) = arg.high

C9_Witness ==
    /\ op = "pack_into_u64"
    /\ arg.high = KindBit32 \cup ActivationBit32
    /\ arg.low = KindBit32 \cup {0}

\* C10: pack_kind_into_high(v, k) has the low 31 bits of v: bit 30 and the
\* value bits are as in v, for every kind k.
C10_PackKindFrame ==
    op = "pack_kind_into_high" =>
        /\ ret \ KindBit32 = arg.value \ KindBit32
        /\ IdentifierMask_extract_value_from_high(ret) =
              IdentifierMask_extract_value_from_high(arg.value)

C10_Witness ==
    /\ op = "pack_kind_into_high"
    /\ arg.kind = "Placeholder"
    /\ arg.value = {0}
    /\ ret = KindBit32 \cup {0}

===========================================================================
